---- MODULE Spec2Model ----
(***************************************************************************)
(* Model of the teacher-pdf lookup-and-notify service (src/server.js):     *)
(* the name matcher normalizeName / scoreMatch / findPdfByName, the table  *)
(* loader loadPdfTableOnce, GET /reload and POST /mcp/tools/               *)
(* send_pdf_by_name.                                                       *)
(*                                                                         *)
(* JavaScript strings are modelled by TLA+ strings; a character is a       *)
(* string of length 1, taken with SubSeq.                                  *)
(***************************************************************************)
EXTENDS Integers, Sequences, FiniteSets, TLC

\* null, where a row or a logged record is expected.
NULL == [ null |-> TRUE ]

\* undefined, where a string is expected: a column a CSV row lacks, a
\* field a request lacks.
undefined == "__undefined__"

\* A request field that is present but is not a JSON string (a number, an
\* object): truthy, but it has no toLowerCase method.
NonString == "__nonstring__"

----------------------------------------------------------------------------
(* Character-level helpers of the JavaScript string methods.               *)

CharAt(s, i) == SubSeq(s, i, i)

UpperCaseLetters == "ABCDEFGHIJKLMNOPQRSTUVWXYZ"
LowerCaseLetters == "abcdefghijklmnopqrstuvwxyz"
Digits == "0123456789"

\* The characters a string is made of, as a set.
CharsOf(s) == { CharAt(s, i) : i \in 1..Len(s) }

\* \s of the regular expressions and the characters trim() removes.
WhiteSpace == CharsOf(" \t\n\r\f")

\* [a-z0-9]
LowerAlnum == CharsOf(LowerCaseLetters) \cup CharsOf(Digits)

\* String.prototype.toLowerCase, one character.
toLowerCaseChar(c) ==
    IF \E i \in 1..Len(UpperCaseLetters) : CharAt(UpperCaseLetters, i) = c
    THEN LET i == CHOOSE j \in 1..Len(UpperCaseLetters) : CharAt(UpperCaseLetters, j) = c
         IN  CharAt(LowerCaseLetters, i)
    ELSE c

\* String.prototype.toLowerCase over the characters lo..hi of s (the range
\* is halved, the results concatenated).
RECURSIVE toLowerCaseRange(_, _, _)
toLowerCaseRange(s, lo, hi) ==
    IF lo > hi THEN ""
    ELSE IF lo = hi THEN toLowerCaseChar(CharAt(s, lo))
    ELSE LET mid == (lo + hi) \div 2
         IN  toLowerCaseRange(s, lo, mid) \o toLowerCaseRange(s, mid + 1, hi)

toLowerCase(s) == toLowerCaseRange(s, 1, Len(s))

\* .replace(/[^a-z0-9\s]/g, ""), one character: kept or deleted.
removeSpecialChar(c) == IF c \in LowerAlnum \cup WhiteSpace THEN c ELSE ""

RECURSIVE removeSpecialCharsRange(_, _, _)
removeSpecialCharsRange(s, lo, hi) ==
    IF lo > hi THEN ""
    ELSE IF lo = hi THEN removeSpecialChar(CharAt(s, lo))
    ELSE LET mid == (lo + hi) \div 2
         IN  removeSpecialCharsRange(s, lo, mid) \o removeSpecialCharsRange(s, mid + 1, hi)

\* .replace(/[^a-z0-9\s]/g, "")
removeSpecialChars(s) == removeSpecialCharsRange(s, 1, Len(s))

\* .replace(/\s+/g, " ") at position i: the first character of a run of
\* whitespace becomes a space, the rest of the run goes.
collapseWhiteSpaceAt(s, i) ==
    IF CharAt(s, i) \in WhiteSpace
    THEN IF i > 1 /\ CharAt(s, i - 1) \in WhiteSpace THEN "" ELSE " "
    ELSE CharAt(s, i)

RECURSIVE collapseWhiteSpaceRange(_, _, _)
collapseWhiteSpaceRange(s, lo, hi) ==
    IF lo > hi THEN ""
    ELSE IF lo = hi THEN collapseWhiteSpaceAt(s, lo)
    ELSE LET mid == (lo + hi) \div 2
         IN  collapseWhiteSpaceRange(s, lo, mid) \o collapseWhiteSpaceRange(s, mid + 1, hi)

\* .replace(/\s+/g, " ")
collapseWhiteSpace(s) == collapseWhiteSpaceRange(s, 1, Len(s))

\* The positions of s that hold no whitespace.
nonWhiteSpaceAt(s) == { i \in 1..Len(s) : CharAt(s, i) \notin WhiteSpace }

Minimum(S) == CHOOSE x \in S : \A y \in S : x <= y
Maximum(S) == CHOOSE x \in S : \A y \in S : x >= y

\* trim() that forgets the end of the string.
trimLeadingOnly(s) ==
    IF nonWhiteSpaceAt(s) = {} THEN ""
    ELSE SubSeq(s, Minimum(nonWhiteSpaceAt(s)), Len(s))

\* String.prototype.trim: from the first to the last non-whitespace
\* character.
trim(s) ==
    IF nonWhiteSpaceAt(s) = {} THEN ""
    ELSE SubSeq(s, Minimum(nonWhiteSpaceAt(s)), Maximum(nonWhiteSpaceAt(s)))

\* String.prototype.includes
includes(s, w) ==
    \E i \in 0..(Len(s) - Len(w)) : SubSeq(s, i + 1, i + Len(w)) = w

\* s.split(" "): the pieces between the spaces, empty pieces included.
RECURSIVE split(_)
split(s) ==
    LET spaces == { i \in 1..Len(s) : CharAt(s, i) = " " }
    IN  IF spaces = {} THEN << s >>
        ELSE << SubSeq(s, 1, Minimum(spaces) - 1) >>
             \o split(SubSeq(s, Minimum(spaces) + 1, Len(s)))

\* s.split(" ").filter(Boolean)
tokens(s) == SelectSeq(split(s), LAMBDA t : t # "")

----------------------------------------------------------------------------
(* The matcher.                                                            *)

normalizeName(str) ==
    trim(collapseWhiteSpace(removeSpecialChars(toLowerCase(str))))

\* The vocabulary list of scoreMatch, in source order, repeated entries
\* included.
important ==
    << "welcome", "letter", "family", "guide", "program", "implementation",
       "protocol", "internalization", "lesson", "unit", "teacher", "coach",
       "student", "reading", "independent", "observation", "navigation",
       "component", "pacing", "scope", "sequence",
       "gk", "k", "k-2", "k-3", "k-5", "grade",
       "foundational", "skills", "fs", "activity", "big", "reader",
       "digital", "visuals", "components", "support",
       "consonant", "vowel", "code", "flip", "book", "chart", "individual",
       "spelling", "cards", "letter", "image",
       "rla",
       "unit", "1", "2", "3", "4", "5", "6", "7", "8", "9", "10",
       "fs1", "fs2", "fs3", "fs4", "fs5", "fs6", "fs7",
       "activity", "reader", "guide", "flip", "cards", "visuals", "book" >>

BONUS_PER_TERM == 15

\* The loop over sTokens: the tokens of the search found in the candidate's
\* token set, each position of sTokens counted.
countHits(sTokens, cSet) ==
    Cardinality({ i \in 1..Len(sTokens) : sTokens[i] \in cSet })

\* The loop over important: 15 for every entry of the list found in both
\* strings, each position of the list counted.
sumBonus(words, search, candidate) ==
    BONUS_PER_TERM
    * Cardinality({ i \in 1..Len(words) :
                      includes(search, words[i]) /\ includes(candidate, words[i]) })

Max(a, b) == IF a >= b THEN a ELSE b

\* Math.round(hits / Math.max(1, n) * 500): to the nearest integer, halves up.
roundRatio500(hits, n) == (2 * 500 * hits + Max(1, n)) \div (2 * Max(1, n))

\* scoreMatch that adds the vocabulary bonus in the substring tiers too.
scoreMatchBonusInAllTiers(search, candidate) ==
    IF candidate = search THEN 1000
    ELSE IF includes(candidate, search)
    THEN 700 + sumBonus(important, search, candidate)
    ELSE IF includes(search, candidate)
    THEN 650 + sumBonus(important, search, candidate)
    ELSE roundRatio500(countHits(tokens(search),
                                 { tokens(candidate)[i] : i \in 1..Len(tokens(candidate)) }),
                       Len(tokens(search)))
         + sumBonus(important, search, candidate)

scoreMatch(search, candidate) ==
    IF candidate = search THEN 1000
    ELSE IF includes(candidate, search) THEN 700
    ELSE IF includes(search, candidate) THEN 650
    ELSE LET sTokens == tokens(search)
             cSet == { tokens(candidate)[i] : i \in 1..Len(tokens(candidate)) }
             hits == countHits(sTokens, cSet)
         IN  roundRatio500(hits, Len(sTokens)) + sumBonus(important, search, candidate)

----------------------------------------------------------------------------
(* The loader.                                                             *)

\* (v || "").trim() of one CSV field; a column the row lacks is undefined.
fieldOrEmpty(v) == IF v = undefined THEN "" ELSE trim(v)

\* records.map(...) of loadPdfTableOnce: the table built from the parsed
\* CSV records.
loadPdfTableOnce(records) ==
    [ i \in 1..Len(records) |->
        [ keyword  |-> toLowerCase(fieldOrEmpty(records[i].keyword)),
          pdf_name |-> fieldOrEmpty(records[i].pdf_name),
          pdf_link |-> fieldOrEmpty(records[i].pdf_link) ] ]

----------------------------------------------------------------------------
(* Bounds and input pools.                                                 *)

MaxStrLen == 4      \* longest raw string given to normalizeName
MaxTokens == 2      \* most tokens of a string given to scoreMatch
MaxRows == 3        \* most rows of a table given to findPdfByName

\* Raw characters: an upper-case letter, a lower-case letter, a digit, two
\* kinds of whitespace and a special character.
RawAlphabet == {"A", "b", "1", " ", "\t", "-"}

RECURSIVE StringsUpTo(_, _)
StringsUpTo(alphabet, n) ==
    IF n = 0 THEN {""}
    ELSE LET shorter == StringsUpTo(alphabet, n - 1)
         IN  shorter \cup { s \o c : s \in shorter, c \in alphabet }

RawStrings == StringsUpTo(RawAlphabet, MaxStrLen)

\* Tokens of normalized strings: vocabulary words ("unit" is listed twice,
\* "1" is a substring of "10", "book" contains the entry "k") and a word
\* outside the vocabulary.
TokenPool == {"unit", "1", "10", "book", "x"}

RECURSIVE JoinedUpTo(_, _)
JoinedUpTo(toks, n) ==
    IF n = 0 THEN {""}
    ELSE LET shorter == JoinedUpTo(toks, n - 1)
         IN  shorter \cup { IF s = "" THEN t ELSE s \o " " \o t : s \in shorter, t \in toks }

NormalizedStrings == JoinedUpTo(TokenPool, MaxTokens)

\* Two names rich in vocabulary, the second the first with its tokens
\* rotated.
LongName1 == "Letter Unit Activity Reader Guide Flip Cards Visuals Book FS1023456789"
LongName2 == "Unit Activity Reader Guide Flip Cards Visuals Book FS1023456789 Letter"

\* Parsed CSV records; a column the row lacks is undefined.
CsvRecords ==
    { [keyword |-> "FlipBook1", pdf_name |-> " Unit 1 Flip Book", pdf_link |-> "link1 "],
      [keyword |-> "FlipChart1", pdf_name |-> "Unit 1 Flip Chart", pdf_link |-> "link2"],
      [keyword |-> "Welcome", pdf_name |-> "Grade 1 Welcome Letter", pdf_link |-> "link3"],
      [keyword |-> "Chart2", pdf_name |-> "Grade 2 Consonant Chart ", pdf_link |-> "link4"],
      [keyword |-> "nameless", pdf_name |-> undefined, pdf_link |-> "link5"],
      [keyword |-> undefined, pdf_name |-> "PDF", pdf_link |-> "link6"],
      [keyword |-> "long1", pdf_name |-> LongName1, pdf_link |-> "link7"],
      [keyword |-> "long2", pdf_name |-> LongName2, pdf_link |-> "link8"] }

CsvFiles(n) == UNION { [1..k -> CsvRecords] : k \in 0..n }

\* The pdf_name values of requests.
QueryPool ==
    { "unit 1", "Unit", "Uni!", "pdf", "", "Welcome Letter",
      "Grade 1 Welcome Letter", "unit 2 chart", "Unit 1: chart book",
      "zzzz", LongName1 }

MaxRequests == 2    \* most requests to /mcp/tools/send_pdf_by_name
MaxReloads == 1     \* most requests to /reload

\* The contents grade1.csv can have when it is read: two generations of the
\* table (the welcome letter changes its link and its place), and a file
\* with a header and no rows.
ServerFiles ==
    { << [keyword |-> "FlipBook1", pdf_name |-> " Unit 1 Flip Book", pdf_link |-> "link1 "],
         [keyword |-> "Welcome", pdf_name |-> "Grade 1 Welcome Letter", pdf_link |-> "link3"] >>,
      << [keyword |-> "Welcome", pdf_name |-> "Grade 1 Welcome Letter", pdf_link |-> "link3-v2"],
         [keyword |-> "FlipBook1", pdf_name |-> " Unit 1 Flip Book", pdf_link |-> "link1 "],
         [keyword |-> "FlipChart1", pdf_name |-> "Unit 1 Flip Chart", pdf_link |-> "link2"] >>,
      << >> }

\* The values the handler resolves from a request body: a field the body
\* lacks is undefined, a pdf_name that is not a JSON string is NonString.
RequestInputs ==
    { [pdf_name |-> "Welcome Letter", teacher_name |-> "Ann", teacher_email |-> "ann@school.org"],
      [pdf_name |-> "unit 1", teacher_name |-> "Ann", teacher_email |-> "ann@school.org"],
      [pdf_name |-> "pdf", teacher_name |-> "Ann", teacher_email |-> "ann@school.org"],
      [pdf_name |-> "zzzz", teacher_name |-> "Ann", teacher_email |-> "ann@school.org"],
      [pdf_name |-> undefined, teacher_name |-> "Ann", teacher_email |-> "ann@school.org"],
      [pdf_name |-> "Welcome Letter", teacher_name |-> "Ann", teacher_email |-> undefined],
      [pdf_name |-> NonString, teacher_name |-> "Ann", teacher_email |-> "ann@school.org"] }

----------------------------------------------------------------------------
(* findPdfByName.                                                          *)

\* normalizeName and scoreMatch are pure; their values on the strings of
\* the pools are computed once and looked up afterwards.
PoolNames == { fieldOrEmpty(r.pdf_name) : r \in CsvRecords }

normalizeNameMemo == [ s \in PoolNames \cup QueryPool |-> normalizeName(s) ]

normalizeNameOf(s) ==
    IF s \in DOMAIN normalizeNameMemo THEN normalizeNameMemo[s] ELSE normalizeName(s)

scoreMatchMemo ==
    [ q \in { normalizeNameMemo[s] : s \in QueryPool },
      c \in { normalizeNameMemo[s] : s \in PoolNames } |-> scoreMatch(q, c) ]

scoreMatchOf(q, c) ==
    IF << q, c >> \in DOMAIN scoreMatchMemo THEN scoreMatchMemo[q, c] ELSE scoreMatch(q, c)

MIN_SCORE == 140
MIN_GAP == 40
\* A length check that lets three-character queries through.
MIN_SEARCH_LENGTH_3 == 4 - 1

MIN_SEARCH_LENGTH == 4

\* The loop body without its else-if: a score that does not beat the best
\* never becomes the second best.
scanStepNoElseIf(acc, i, s) ==
    IF s > acc.bestScore
    THEN [best |-> i, bestScore |-> s, secondBestScore |-> acc.bestScore]
    ELSE acc

\* The loop body comparing with >=: a later row of equal score replaces
\* the best.
scanStepLastWins(acc, i, s) ==
    IF s >= acc.bestScore
    THEN [best |-> i, bestScore |-> s, secondBestScore |-> acc.bestScore]
    ELSE IF s > acc.secondBestScore
    THEN [acc EXCEPT !.secondBestScore = s]
    ELSE acc

\* The loop body that stores the new score, not the old best, as the
\* second best.
scanStepSecondIsNew(acc, i, s) ==
    IF s > acc.bestScore
    THEN [best |-> i, bestScore |-> s, secondBestScore |-> s]
    ELSE IF s > acc.secondBestScore
    THEN [acc EXCEPT !.secondBestScore = s]
    ELSE acc

\* One iteration of the loop of findPdfByName over the row at index i,
\* whose score is s; best is the index of the row held in `best`
\* (0 for null).
scanStep(acc, i, s) ==
    IF s > acc.bestScore
    THEN [best |-> i, bestScore |-> s, secondBestScore |-> acc.bestScore]
    ELSE IF s > acc.secondBestScore
    THEN [acc EXCEPT !.secondBestScore = s]
    ELSE acc

\* The loop of findPdfByName from row i to the end of the table.
RECURSIVE scanTable(_, _, _, _)
scanTable(search, table, i, acc) ==
    IF i > Len(table) THEN acc
    ELSE scanTable(search, table, i + 1,
                   scanStep(acc, i, scoreMatchOf(search, normalizeNameOf(table[i].pdf_name))))

scanInit == [best |-> 0, bestScore |-> -1, secondBestScore |-> -1]

\* findPdfByName, returning the index in the table of the row it returns,
\* 0 when it returns null.
findPdfByNameIndex(pdfName, table) ==
    LET search == normalizeNameOf(pdfName)
    IN  IF search = "" THEN 0
        ELSE IF Len(search) < MIN_SEARCH_LENGTH THEN 0
        ELSE LET r == scanTable(search, table, 1, scanInit)
             IN  IF r.bestScore < MIN_SCORE THEN 0
                 ELSE IF r.secondBestScore # -1
                         /\ r.bestScore - r.secondBestScore < MIN_GAP THEN 0
                 ELSE r.best

\* findPdfByName: the row itself, or null.
findPdfByName(pdfName, table) ==
    LET i == findPdfByNameIndex(pdfName, table)
    IN  IF i = 0 THEN NULL ELSE table[i]

\* What findPdfByName passes to console.warn: the record it logs when it
\* rejects an ambiguous match, NULL when it logs nothing.
findPdfByNameWarning(pdfName, table) ==
    LET search == normalizeNameOf(pdfName)
        r == scanTable(search, table, 1, scanInit)
    IN  IF search # "" /\ Len(search) >= MIN_SEARCH_LENGTH
           /\ r.bestScore >= MIN_SCORE
           /\ r.secondBestScore # -1
           /\ r.bestScore - r.secondBestScore < MIN_GAP
        THEN [ input |-> pdfName, normalized |-> search,
               bestScore |-> r.bestScore, secondBestScore |-> r.secondBestScore,
               bestPdf |-> table[r.best].pdf_name ]
        ELSE NULL

----------------------------------------------------------------------------
(* State.                                                                  *)

VARIABLES
    PDF_TABLE,      \* the module-level table
    argPdfName,        \* findPdfByName: the argument
    retIndex,     \* findPdfByName: index in PDF_TABLE of the row returned, 0 for null
    retFound,          \* findPdfByName: the value returned
    warned,            \* findPdfByName: what it gave to console.warn, or NULL
    pcFind,            \* findPdfByName: "call" before it ran, "return" after
    argStr,            \* normalizeName: the argument
    retNormalized,     \* normalizeName: the value returned
    pcNormalize,            \* normalizeName: "call" / "return"
    argSearch,         \* scoreMatch: first argument
    argCandidate,      \* scoreMatch: second argument
    retScore,          \* scoreMatch: the value returned
    pcScore,            \* scoreMatch: "call" / "return"
    requests,           \* POST /mcp/tools/send_pdf_by_name: one record per request
    loaded,             \* every table PDF_TABLE has been assigned so far
    reloads,            \* GET /reload: how many were served
    reloadResponse,     \* GET /reload: the last response, or NULL
    seenReload          \* per request: the status of the last /reload when it arrived, 0 if none

matcherVars == << argPdfName, retIndex, retFound, warned, pcFind >>
normVars == << argStr, retNormalized, pcNormalize >>
scoreVars == << argSearch, argCandidate, retScore, pcScore >>
serverVars == << requests, loaded, reloads, reloadResponse, seenReload >>
vars == << PDF_TABLE, matcherVars, normVars, scoreVars, serverVars >>

MatcherIdle ==
    argPdfName = undefined /\ retIndex = 0 /\ retFound = NULL /\ warned = NULL /\ pcFind = "idle"
NormIdle == argStr = undefined /\ retNormalized = undefined /\ pcNormalize = "idle"
ServerIdle ==
    /\ requests = << >> /\ loaded = {} /\ reloads = 0 /\ reloadResponse = NULL
    /\ seenReload = << >>
ScoreIdle == argSearch = undefined /\ argCandidate = undefined /\ retScore = -1 /\ pcScore = "idle"

----------------------------------------------------------------------------
(* normalizeName applied to every raw string.                              *)

InitNorm ==
    /\ PDF_TABLE = << >>
    /\ MatcherIdle /\ ScoreIdle /\ ServerIdle
    /\ argStr \in RawStrings
    /\ retNormalized = undefined
    /\ pcNormalize = "call"

NormalizeNameCall ==
    /\ pcNormalize = "call"
    /\ retNormalized' = normalizeName(argStr)
    /\ pcNormalize' = "return"
    /\ UNCHANGED << PDF_TABLE, matcherVars, scoreVars, serverVars, argStr >>

NextNorm == NormalizeNameCall

SpecNorm == InitNorm /\ [][NextNorm]_vars

----------------------------------------------------------------------------
(* scoreMatch applied to every pair of retNormalized strings.                 *)

InitScore ==
    /\ PDF_TABLE = << >>
    /\ MatcherIdle /\ NormIdle /\ ServerIdle
    /\ argSearch \in NormalizedStrings
    /\ argCandidate \in NormalizedStrings
    /\ retScore = -1
    /\ pcScore = "call"

ScoreMatchCall ==
    /\ pcScore = "call"
    /\ retScore' = scoreMatch(argSearch, argCandidate)
    /\ pcScore' = "return"
    /\ UNCHANGED << PDF_TABLE, matcherVars, normVars, serverVars, argSearch, argCandidate >>

NextScore == ScoreMatchCall

SpecScore == InitScore /\ [][NextScore]_vars

----------------------------------------------------------------------------
(* findPdfByName applied to every query over every loaded table.           *)

InitMatcher ==
    /\ PDF_TABLE \in { loadPdfTableOnce(records) : records \in CsvFiles(MaxRows) }
    /\ NormIdle /\ ScoreIdle /\ ServerIdle
    /\ argPdfName \in QueryPool
    /\ retIndex = 0
    /\ retFound = NULL
    /\ warned = NULL
    /\ pcFind = "call"

FindPdfByNameCall ==
    /\ pcFind = "call"
    /\ retIndex' = findPdfByNameIndex(argPdfName, PDF_TABLE)
    /\ retFound' = findPdfByName(argPdfName, PDF_TABLE)
    /\ warned' = findPdfByNameWarning(argPdfName, PDF_TABLE)
    /\ pcFind' = "return"
    /\ UNCHANGED << PDF_TABLE, normVars, scoreVars, serverVars, argPdfName >>

NextMatcher == FindPdfByNameCall

SpecMatcher == InitMatcher /\ [][NextMatcher]_vars

----------------------------------------------------------------------------
(* The server: POST /mcp/tools/send_pdf_by_name and GET /reload.  Node runs *)
(* a handler without interruption up to its next await, so each action is  *)
(* one such run.                                                           *)

\* !v of JavaScript for a request field.
falsy(v) == v = undefined \/ v = ""

\* The message the handler gives to resend.emails.send.
emailFor(input, row) ==
    [ to |-> input.teacher_email,
      subject |-> "Requested PDF: " \o row.pdf_name,
      html_name |-> input.teacher_name,
      html_pdf_name |-> row.pdf_name,
      html_href |-> row.pdf_link,
      text_link |-> row.pdf_link ]

\* The handler without its `if (!found)`: a null from findPdfByName reaches
\* found.pdf_name, which throws, and the catch block answers 500.
sendPdfByNameStartNoNullCheck(input, table) ==
    LET base == [ input |-> input, lookedUp |-> FALSE, scanned |-> << >>,
                  found |-> NULL, email |-> NULL,
                  pc |-> "done", status |-> 0, body |-> NULL ]
    IN  IF falsy(input.pdf_name) \/ falsy(input.teacher_name) \/ falsy(input.teacher_email)
        THEN [ base EXCEPT !.status = 400,
                 !.body = [ ok |-> FALSE, message |-> "Missing required fields" ] ]
        ELSE IF input.pdf_name = NonString
        THEN [ base EXCEPT !.status = 500,
                 !.body = [ ok |-> FALSE, message |-> "TypeError" ] ]
        ELSE LET found == findPdfByName(input.pdf_name, table)
             IN  IF found = NULL
                 THEN [ base EXCEPT !.lookedUp = TRUE, !.scanned = table,
                          !.status = 500,
                          !.body = [ ok |-> FALSE, message |-> "TypeError" ] ]
                 ELSE [ base EXCEPT !.lookedUp = TRUE, !.scanned = table,
                          !.found = found,
                          !.email = emailFor(input, found),
                          !.pc = "awaitSend" ]

\* The handler from the arrival of the request to its first await or to its
\* response, over the table as it is then.  pc "awaitSend": suspended in
\* await resend.emails.send(...); pc "done": the response was sent.
\* scanned is the table findPdfByName looped over, empty if it did not run.
sendPdfByNameStart(input, table) ==
    LET base == [ input |-> input, lookedUp |-> FALSE, scanned |-> << >>,
                  found |-> NULL, email |-> NULL,
                  pc |-> "done", status |-> 0, body |-> NULL ]
    IN  IF falsy(input.pdf_name) \/ falsy(input.teacher_name) \/ falsy(input.teacher_email)
        THEN [ base EXCEPT !.status = 400,
                 !.body = [ ok |-> FALSE, message |-> "Missing required fields" ] ]
        ELSE IF input.pdf_name = NonString
        THEN \* (str || "").toLowerCase is not a function: caught, 500
             [ base EXCEPT !.status = 500,
                 !.body = [ ok |-> FALSE, message |-> "TypeError" ] ]
        ELSE LET found == findPdfByName(input.pdf_name, table)
             IN  IF found = NULL
                 THEN [ base EXCEPT !.lookedUp = TRUE, !.scanned = table,
                          !.status = 404,
                          !.body = [ ok |-> FALSE,
                                     message |-> "No PDF found for that pdf_name",
                                     pdf_name |-> input.pdf_name ] ]
                 ELSE [ base EXCEPT !.lookedUp = TRUE, !.scanned = table,
                          !.found = found,
                          !.email = emailFor(input, found),
                          !.pc = "awaitSend" ]

\* The 200 response built from a second lookup in the table as it is when
\* the send resolves, instead of from the row held since before the await.
sendPdfByNameSuccessLookupAgain(request) ==
    LET again == findPdfByName(request.input.pdf_name, PDF_TABLE)
        shown == IF again = NULL THEN request.found ELSE again
    IN  [ ok |-> TRUE, message |-> "PDF sent successfully",
          pdf_name |-> shown.pdf_name,
          pdf_link |-> shown.pdf_link ]

\* The response after resend.emails.send resolved, for a request suspended
\* with the row held in `found`.
sendPdfByNameSuccess(request) ==
    [ ok |-> TRUE, message |-> "PDF sent successfully",
      pdf_name |-> request.found.pdf_name,
      pdf_link |-> request.found.pdf_link ]

InitServer ==
    /\ PDF_TABLE \in { loadPdfTableOnce(records) : records \in ServerFiles }
    /\ MatcherIdle /\ NormIdle /\ ScoreIdle
    /\ requests = << >>
    /\ loaded = { PDF_TABLE }
    /\ reloads = 0
    /\ reloadResponse = NULL
    /\ seenReload = << >>

\* A request arrives; the handler runs to its response or to await.
SendPdfByNameStart ==
    /\ Len(requests) < MaxRequests
    /\ \E input \in RequestInputs :
         requests' = Append(requests, sendPdfByNameStart(input, PDF_TABLE))
    /\ seenReload' = Append(seenReload, IF reloadResponse = NULL THEN 0 ELSE reloadResponse.status)
    /\ UNCHANGED << PDF_TABLE, matcherVars, normVars, scoreVars, loaded, reloads, reloadResponse >>

\* resend.emails.send resolved: the handler resumes and answers 200.
SendPdfByNameResolved ==
    \E r \in 1..Len(requests) :
        /\ requests[r].pc = "awaitSend"
        /\ requests' = [ requests EXCEPT ![r].pc = "done", ![r].status = 200,
                           ![r].body = sendPdfByNameSuccess(requests[r]) ]
        /\ UNCHANGED << PDF_TABLE, matcherVars, normVars, scoreVars, loaded, reloads,
                       reloadResponse, seenReload >>

\* resend.emails.send rejected: the catch block answers 500.
SendPdfByNameRejected ==
    \E r \in 1..Len(requests) :
        /\ requests[r].pc = "awaitSend"
        /\ requests' = [ requests EXCEPT ![r].pc = "done", ![r].status = 500,
                           ![r].body = [ ok |-> FALSE, message |-> "Server error" ] ]
        /\ UNCHANGED << PDF_TABLE, matcherVars, normVars, scoreVars, loaded, reloads,
                       reloadResponse, seenReload >>

\* GET /reload, the file read and parsed: the table is replaced in one
\* assignment and the count answered.
ReloadOk ==
    /\ reloads < MaxReloads
    /\ \E records \in ServerFiles :
         /\ PDF_TABLE' = loadPdfTableOnce(records)
         /\ reloadResponse' = [ status |-> 200, ok |-> TRUE, count |-> Len(records) ]
    /\ loaded' = loaded \cup { PDF_TABLE' }
    /\ reloads' = reloads + 1
    /\ UNCHANGED << matcherVars, normVars, scoreVars, requests, seenReload >>

\* A failed load that empties the table before it reads the file.
tableClearedByFailedLoad(table) == << >>

\* PDF_TABLE after loadPdfTableOnce threw: readFileSync and parse run
\* before the one assignment, so the table is what it was.
tableAfterFailedLoad(table) == table

\* GET /reload, readFileSync or parse threw before the assignment: 500.
ReloadFailed ==
    /\ reloads < MaxReloads
    /\ PDF_TABLE' = tableAfterFailedLoad(PDF_TABLE)
    /\ reloadResponse' = [ status |-> 500, ok |-> FALSE, count |-> 0 ]
    /\ reloads' = reloads + 1
    /\ UNCHANGED << matcherVars, normVars, scoreVars, requests, loaded, seenReload >>

Next ==
    \/ SendPdfByNameStart
    \/ SendPdfByNameResolved
    \/ SendPdfByNameRejected
    \/ ReloadOk
    \/ ReloadFailed

Spec == InitServer /\ [][Next]_vars

----------------------------------------------------------------------------
(* Properties of normalizeName (SpecNorm).                                 *)

\* Only lower-case ASCII letters, digits and single spaces, no space at
\* either end.
IsNormalizedForm(s) ==
    /\ \A i \in 1..Len(s) : CharAt(s, i) \in LowerAlnum \cup {" "}
    /\ \A i \in 1..(Len(s) - 1) : ~(CharAt(s, i) = " " /\ CharAt(s, i + 1) = " ")
    /\ Len(s) > 0 => CharAt(s, 1) # " " /\ CharAt(s, Len(s)) # " "

IsBlank(s) == \A i \in 1..Len(s) : CharAt(s, i) \in WhiteSpace

\* C9: for every input string, normalizeName returns a string of lower-case
\* ASCII letters, digits and single spaces with no leading or trailing
\* space, the empty string for an empty or whitespace-only input, and the
\* result is a fixed point of normalizeName.
C9_NormalizeCanonicalFixedPoint ==
    pcNormalize = "return" =>
        /\ IsNormalizedForm(retNormalized)
        /\ IsBlank(argStr) => retNormalized = ""
        /\ normalizeName(retNormalized) = retNormalized

\* An input with an upper-case letter, a special character and whitespace
\* at its end has been normalized.
C9_Witness ==
    /\ pcNormalize = "return"
    /\ argStr = "A-b\t"
    /\ retNormalized = "ab"

----------------------------------------------------------------------------
(* Properties of scoreMatch (SpecScore).                                   *)

\* w occurs in s.
IsSubstring(w, s) ==
    \E i \in 1..(Len(s) + 1) : \E j \in (i - 1)..Len(s) : SubSeq(s, i, j) = w

\* The positions where a token of s starts, and the token that starts there.
TokenStarts(s) ==
    { i \in 1..Len(s) : CharAt(s, i) # " " /\ (i = 1 \/ CharAt(s, i - 1) = " ") }

TokenFrom(s, i) ==
    SubSeq(s, i, Maximum({ j \in i..Len(s) : \A k \in i..j : CharAt(s, k) # " " }))

\* Query tokens, with repetition, that occur among the candidate's tokens.
TokenHits(q, c) ==
    Cardinality({ i \in TokenStarts(q) :
                    TokenFrom(q, i) \in { TokenFrom(c, j) : j \in TokenStarts(c) } })

\* 15 for each entry of the vocabulary list that is a substring of both.
VocabularyBonus(q, c) ==
    15 * Cardinality({ k \in 1..Len(important) :
                         IsSubstring(important[k], q) /\ IsSubstring(important[k], c) })

\* r = round(500 * hits / max(1, n)), halves rounded up.
IsRounded500(r, hits, n) ==
    LET d == IF n >= 1 THEN n ELSE 1
    IN  2 * d * r - d <= 1000 * hits /\ 1000 * hits < 2 * d * r + d

\* C3 as stated: the bonus is added to the tier base in the two substring
\* tiers as well as in the token-overlap tier.
C3_BonusInEveryTier ==
    (pcScore = "return" /\ argSearch # argCandidate) =>
        LET bonus == VocabularyBonus(argSearch, argCandidate)
        IN  IF IsSubstring(argSearch, argCandidate) THEN retScore = 700 + bonus
            ELSE IF IsSubstring(argCandidate, argSearch) THEN retScore = 650 + bonus
            ELSE IsRounded500(retScore - bonus,
                              TokenHits(argSearch, argCandidate),
                              Cardinality(TokenStarts(argSearch)))

\* C3, amended: for normalized strings query # candidate, scoreMatch is
\* exactly 700 if the candidate contains the query, else exactly 650 if the
\* query contains the candidate, else round(500 * hits / max(1, number of
\* query tokens)) plus 15 for each entry of the vocabulary list that is a
\* substring of both; the bonus is added in the token-overlap tier only.
C3_BonusInTokenTierOnly ==
    (pcScore = "return" /\ argSearch # argCandidate) =>
        LET bonus == VocabularyBonus(argSearch, argCandidate)
        IN  IF IsSubstring(argSearch, argCandidate) THEN retScore = 700
            ELSE IF IsSubstring(argCandidate, argSearch) THEN retScore = 650
            ELSE IsRounded500(retScore - bonus,
                              TokenHits(argSearch, argCandidate),
                              Cardinality(TokenStarts(argSearch)))

\* A candidate that contains the query and shares vocabulary entries with
\* it has been scored 700.
C3_Witness ==
    /\ pcScore = "return"
    /\ argSearch = "unit 1"
    /\ argCandidate = "unit 10"
    /\ VocabularyBonus(argSearch, argCandidate) = 45
    /\ retScore = 700

----------------------------------------------------------------------------
(* Properties of findPdfByName (SpecMatcher).                              *)

Returned == pcFind = "return"

Rows == 1..Len(PDF_TABLE)

\* The normalized query and the score of each row against it.
NormalizedQuery == normalizeNameOf(argPdfName)

NormalizedNameAt(i) == normalizeNameOf(PDF_TABLE[i].pdf_name)

ScoreAt(i) == scoreMatchOf(NormalizedQuery, NormalizedNameAt(i))

Highest == Maximum({ ScoreAt(i) : i \in Rows })

RowsAtHighest == { i \in Rows : ScoreAt(i) = Highest }

\* The second-highest score over all rows: the highest again when two rows
\* tie for it.
SecondHighest ==
    IF Cardinality(RowsAtHighest) >= 2 THEN Highest
    ELSE Maximum({ ScoreAt(i) : i \in Rows \ RowsAtHighest })

\* C1: over a table of at least two records, for a query whose normalized
\* form has at least 4 characters, findPdfByName returns null whenever the
\* highest score minus the second-highest score is less than 40.
C1_CloseSecondIsRejected ==
    (Returned /\ Len(PDF_TABLE) >= 2 /\ Len(NormalizedQuery) >= 4
       /\ Highest - SecondHighest < 40)
        => retFound = NULL

\* Two rows of different score, the best at least 140, less than 40 apart:
\* null was returned.
C1_Witness ==
    /\ Returned /\ Len(PDF_TABLE) >= 2 /\ Len(NormalizedQuery) >= 4
    /\ Highest >= 140
    /\ Highest - SecondHighest \in 1..39
    /\ retFound = NULL

\* C2 as stated: when several rows share the maximal score (at least 140),
\* findPdfByName returns the first of them in table order.
C2_FirstOfTiedReturned ==
    (Returned /\ Len(NormalizedQuery) >= 4 /\ Rows # {}
       /\ Highest >= 140 /\ Cardinality(RowsAtHighest) >= 2)
        => /\ retIndex = Minimum(RowsAtHighest)
           /\ retFound = PDF_TABLE[Minimum(RowsAtHighest)]

\* C2, amended: when several rows share the maximal score (normalized
\* query of at least 4 characters, maximal score at least 140),
\* findPdfByName returns null, and the first of those rows in table order
\* is the one it holds as best: its pdf_name is the bestPdf of the
\* ambiguity warning.
C2_TiedIsRejectedFirstIsBest ==
    (Returned /\ Len(NormalizedQuery) >= 4 /\ Rows # {}
       /\ Highest >= 140 /\ Cardinality(RowsAtHighest) >= 2)
        => /\ retFound = NULL
           /\ warned # NULL
           /\ warned.bestPdf = PDF_TABLE[Minimum(RowsAtHighest)].pdf_name
           /\ warned.bestScore = Highest
           /\ warned.secondBestScore = Highest

\* Two rows of different name tie for the maximal score: null was
\* returned and the warning names the first.
C2_Witness ==
    /\ Returned /\ Len(NormalizedQuery) >= 4 /\ Rows # {}
    /\ Highest >= 140 /\ Cardinality(RowsAtHighest) >= 2
    /\ PDF_TABLE[Minimum(RowsAtHighest)].pdf_name
         # PDF_TABLE[Maximum(RowsAtHighest)].pdf_name
    /\ retFound = NULL
    /\ warned # NULL
    /\ warned.bestPdf = PDF_TABLE[Minimum(RowsAtHighest)].pdf_name

RowsEqualToQuery == { i \in Rows : NormalizedNameAt(i) = NormalizedQuery }

\* C4: if exactly one row has a normalized pdf_name equal to the normalized
\* query (at least 4 characters), findPdfByName returns that row, whatever
\* other rows the table holds.
C4_ExactMatchReturned ==
    (Returned /\ Len(NormalizedQuery) >= 4 /\ Cardinality(RowsEqualToQuery) = 1)
        => /\ retIndex \in RowsEqualToQuery
           /\ retFound = PDF_TABLE[retIndex]

\* C5: for a query whose normalized form has at least 4 characters, if the
\* maximal score over the table is below 140 findPdfByName returns null; if
\* a row scores at least 140 and it is the only row or every other row
\* scores at least 40 less, findPdfByName returns that row, wherever it
\* stands in the table.
C5_UniqueBestReturned ==
    (Returned /\ Len(NormalizedQuery) >= 4 /\ Rows # {}) =>
        /\ Highest < 140 => retFound = NULL
        /\ \A i \in Rows :
             (ScoreAt(i) >= 140 /\ \A j \in Rows \ {i} : ScoreAt(j) <= ScoreAt(i) - 40)
                => (retIndex = i /\ retFound = PDF_TABLE[i])

\* The last of three rows is the only one to reach 140, and it was
\* returned.
C5_Witness ==
    /\ Returned /\ Len(NormalizedQuery) >= 4
    /\ Len(PDF_TABLE) = 3
    /\ ScoreAt(3) >= 140
    /\ ScoreAt(1) < 140 /\ ScoreAt(2) < ScoreAt(1)
    /\ retIndex = 3
    /\ retFound = PDF_TABLE[3]

\* C6: findPdfByName returns null for every query whose normalized form is
\* empty or shorter than 4 characters, whatever the table holds.
C6_ShortQueryRejected ==
    (Returned /\ Len(NormalizedQuery) < 4) => (retFound = NULL /\ retIndex = 0)

\* A three-character query equal to the normalized name of a row, and a
\* three-character query contained in a row's name, were rejected.
C6_Witness ==
    /\ Returned
    /\ Len(NormalizedQuery) = 3
    /\ Len(PDF_TABLE) = 1
    /\ \/ RowsEqualToQuery = {1}
       \/ IsSubstring(NormalizedQuery, NormalizedNameAt(1))
    /\ retFound = NULL

\* C10: findPdfByName never returns a row whose normalized pdf_name is the
\* empty string.
C10_EmptyNameNeverReturned ==
    (Returned /\ retIndex # 0) => NormalizedNameAt(retIndex) # ""

----------------------------------------------------------------------------
(* Properties of the server (Spec).                                        *)

\* What findPdfByName returns for the request over the table it scanned.
LookupOf(request) == findPdfByName(request.input.pdf_name, request.scanned)

\* The request passed the field validation and its pdf_name is a string.
PassedValidation(request) ==
    /\ ~falsy(request.input.pdf_name)
    /\ ~falsy(request.input.teacher_name)
    /\ ~falsy(request.input.teacher_email)
    /\ request.input.pdf_name # NonString

\* C7: under any interleaving of /reload with lookups, each lookup scores
\* the rows of one table generation, and a request whose lookup ran before
\* a reload finishes its email and its response with the name and link of
\* the row it took from the table it scanned.
C7_RequestKeepsItsSnapshot ==
    \A r \in 1..Len(requests) :
        requests[r].lookedUp =>
            /\ requests[r].scanned \in loaded
            /\ requests[r].found = LookupOf(requests[r])
            /\ requests[r].email # NULL =>
                 /\ requests[r].email.html_pdf_name = LookupOf(requests[r]).pdf_name
                 /\ requests[r].email.html_href = LookupOf(requests[r]).pdf_link
                 /\ requests[r].email.text_link = LookupOf(requests[r]).pdf_link
            /\ requests[r].status = 200 =>
                 /\ requests[r].body.pdf_name = LookupOf(requests[r]).pdf_name
                 /\ requests[r].body.pdf_link = LookupOf(requests[r]).pdf_link

\* A request answered 200 after a reload replaced the table it scanned by
\* one in which its query finds another row.
C7_Witness ==
    \E r \in 1..Len(requests) :
        /\ requests[r].status = 200
        /\ requests[r].scanned # PDF_TABLE
        /\ findPdfByName(requests[r].input.pdf_name, PDF_TABLE) # requests[r].found
        /\ findPdfByName(requests[r].input.pdf_name, PDF_TABLE) # NULL
        /\ requests[r].body.pdf_link = requests[r].found.pdf_link

\* C8: whenever findPdfByName returns null for a request that passed field
\* validation, the handler answers 404 and sends no email for it; an email
\* is sent only after findPdfByName returned a row.
C8_NullIsNotFoundWithoutEmail ==
    \A r \in 1..Len(requests) :
        /\ (PassedValidation(requests[r]) /\ LookupOf(requests[r]) = NULL) =>
             /\ requests[r].pc = "done"
             /\ requests[r].status = 404
             /\ requests[r].email = NULL
        /\ requests[r].email # NULL =>
             /\ requests[r].lookedUp
             /\ LookupOf(requests[r]) # NULL

\* The three causes of a null: a query too short, a best score below 140,
\* an ambiguous pair of best scores.
NullBecauseShort(request) ==
    PassedValidation(request) /\ Len(normalizeNameOf(request.input.pdf_name)) < 4

NullBecauseAmbiguous(request) ==
    PassedValidation(request)
    /\ findPdfByNameWarning(request.input.pdf_name, request.scanned) # NULL

NullBecauseWeak(request) ==
    /\ PassedValidation(request) /\ LookupOf(request) = NULL
    /\ ~NullBecauseShort(request) /\ ~NullBecauseAmbiguous(request)

\* Two requests answered 404 without an email, one for an ambiguous match
\* and one for a short or a weak query.
C8_Witness ==
    \E r1, r2 \in 1..Len(requests) :
        /\ NullBecauseAmbiguous(requests[r1])
        /\ requests[r1].status = 404 /\ requests[r1].email = NULL
        /\ NullBecauseShort(requests[r2]) \/ NullBecauseWeak(requests[r2])
        /\ requests[r2].status = 404 /\ requests[r2].email = NULL

\* The step served a /reload.
ReloadServed == reloads' = reloads + 1

\* The step took in a request, the last of requests'.
RequestArrived == Len(requests') = Len(requests) + 1

\* C11: a /reload that fails (it does not answer 200) answers 500 and
\* leaves the table as it was; the table changes only in a /reload that
\* answers 200, to a table some file loads in full; and every lookup
\* resolves against the whole table as it is when the request arrives,
\* which is therefore the table of the last successful load.
C11_FailedReloadKeepsTable ==
    [][ /\ (ReloadServed /\ reloadResponse'.status # 200) =>
             (reloadResponse'.status = 500 /\ PDF_TABLE' = PDF_TABLE)
        /\ PDF_TABLE' # PDF_TABLE =>
             /\ ReloadServed /\ reloadResponse'.status = 200
             /\ \E records \in ServerFiles :
                  /\ PDF_TABLE' = loadPdfTableOnce(records)
                  /\ reloadResponse'.count = Len(records)
        /\ (RequestArrived /\ requests'[Len(requests')].lookedUp) =>
             /\ requests'[Len(requests')].scanned = PDF_TABLE
             /\ requests'[Len(requests')].found
                  = findPdfByName(requests'[Len(requests')].input.pdf_name, PDF_TABLE)
      ]_vars

\* A request that arrived after a /reload had answered 500 found its row in
\* the table loaded before, which is still in place.
C11_Witness ==
    \E r \in 1..Len(requests) :
        /\ seenReload[r] = 500
        /\ reloadResponse.status = 500
        /\ requests[r].status = 200
        /\ requests[r].scanned = PDF_TABLE
        /\ PDF_TABLE # << >>

====
